---- MODULE Spec2Model ----
(***************************************************************************)
(* State-machine model of the ToDoApp backend (src/ToDoApp): registration, *)
(* login, JWT identity resolution, per-owner to-do CRUD, the admin         *)
(* override, password change and the address entry point, over one         *)
(* relational store.                                                       *)
(***************************************************************************)
EXTENDS Integers, Sequences, FiniteSets, TLC

VARIABLES
    users,      \* rows of table "users", in insertion order
    todos,      \* rows of table "todos", in insertion order
    todo_seq,   \* last value handed out by the todos.id sequence
    addresses,  \* rows of table "addresses", in insertion order
    address_seq,\* last value handed out by the addresses.id sequence
    now,        \* wall clock (datetime.utcnow()), in ticks
    secret_key, \* the value of SECRET_KEY in the running process
    issued,     \* tokens handed out by login so far: for whom, and when
    inflight,   \* the change_password request each worker process is handling
    req,        \* the request handled by the last step
    resp,       \* the response to it
    before      \* the store (the three tables) when that request arrived

vars == <<users, todos, todo_seq, addresses, address_seq, now, secret_key, issued,
          inflight, req, resp, before>>

-----------------------------------------------------------------------------
(* Bounds of the model.                                                    *)

\* number of to-do rows ever inserted
MaxTodos == 2
\* number of tokens handed out by login
MaxTokens == 2
\* number of address rows ever inserted, committed or not
MaxAddresses == 2
\* number of worker processes serving the application on one database
MaxWorkers == 2
\* clock ticks per second: utcnow() has sub-second resolution
TicksPerSec == 2

-----------------------------------------------------------------------------
(* Program constants.                                                      *)

SECRET_KEY == "4a1221568c7bee38337d142b1d3033e8ca513f1a74411c65cc787889037ac2cd"
ALGORITHM == "HS256"
\* TOKEN_TTL = timedelta(minutes=30), in seconds
TOKEN_TTL == 1800

-----------------------------------------------------------------------------
(* A string is a character and how many times it is repeated, so that      *)
(* length limits are computed on strings of any length.                    *)

Rep(c, n) == [char |-> c, len |-> n]

StrLen(s) == s.len

EmptyStr == Rep("", 0)

-----------------------------------------------------------------------------
(* Credential hasher: passlib CryptContext(schemes=["bcrypt"]).            *)

\* salts bcrypt may draw for a new digest
Salts == {"s1", "s2"}
\* the draws followed where no stored digest is ever replaced
OneSalt == {"s1"}

\* bcrypt_context.hash with the salt it drew: a salted, tagged digest
bcrypt_hash(plain, salt) ==
    [scheme |-> "bcrypt", salt |-> salt, digest |-> <<salt, plain>>]

\* bcrypt_context.verify: recompute with the digest's salt and compare
bcrypt_verify(plain, hashed) ==
    bcrypt_hash(plain, hashed.salt) = hashed

-----------------------------------------------------------------------------
(* Token codec: jose.jwt with HS256.                                       *)

\* seconds since the epoch of a datetime given in ticks (timegm(utctimetuple))
Seconds(t) == t \div TicksPerSec

\* HMAC-SHA256 of header and claims under key (an ideal MAC: injective)
HS256(alg, claims, key) == [alg |-> alg, claims |-> claims, key |-> key]

\* jwt.encode(payload, key, algorithm): exp is a datetime, stored in seconds
jwt_encode(payload, key, algorithm) ==
    LET claims == [payload EXCEPT !.exp = Seconds(payload.exp)]
    IN  [wellformed |-> TRUE, alg |-> algorithm, claims |-> claims,
         sig |-> HS256(algorithm, claims, key)]

\* a decode that reads the claims without verifying the signature
jwt_decode_unverified(token, key, algorithms, t) ==
    IF ~token.wellformed THEN [ok |-> FALSE, error |-> "JWTError"]
    ELSE IF "exp" \in DOMAIN token.claims /\ token.claims.exp < Seconds(t)
        THEN [ok |-> FALSE, error |-> "ExpiredSignatureError"]
    ELSE [ok |-> TRUE, claims |-> token.claims]

\* jwt.decode(token, key, algorithms) at clock t: the claims, or a JWTError
jwt_decode(token, key, algorithms, t) ==
    IF ~token.wellformed THEN [ok |-> FALSE, error |-> "JWTError"]
    ELSE IF token.alg \notin algorithms THEN [ok |-> FALSE, error |-> "JWTError"]
    ELSE IF token.sig # HS256(token.alg, token.claims, key)
        THEN [ok |-> FALSE, error |-> "JWTError"]
    ELSE IF "exp" \in DOMAIN token.claims /\ token.claims.exp < Seconds(t)
        THEN [ok |-> FALSE, error |-> "ExpiredSignatureError"]
    ELSE [ok |-> TRUE, claims |-> token.claims]

\* a token whose expiry is the instant it is issued
create_access_token_without_ttl(id, username, role, expires_delta, t) ==
    LET payload == [sub |-> username, id |-> id, exp |-> t, role |-> role]
    IN  jwt_encode(payload, secret_key, ALGORITHM)

\* create_access_token at clock t
create_access_token(id, username, role, expires_delta, t) ==
    LET expires == t + expires_delta * TicksPerSec
        payload == [sub |-> username, id |-> id, exp |-> expires, role |-> role]
    IN  jwt_encode(payload, secret_key, ALGORITHM)

-----------------------------------------------------------------------------
(* Identity resolver.                                                      *)

HTTPException(status, detail) == [ok |-> FALSE, status |-> status, detail |-> detail]

\* OAuth2PasswordBearer(tokenUrl="auth/token"): the bearer token of the
\* Authorization header, or 401 when the header is missing or not "Bearer"
oauth2_bearer(cred) ==
    IF cred.scheme # "bearer"
    THEN HTTPException(401, "Not authenticated")
    ELSE [ok |-> TRUE, token |-> cred.token]

\* get_current_user at clock t: an identity, or the 401 it raises.  It never
\* returns None, so the handlers' `if user is None` tests never fire and are
\* not repeated in the actions below.
get_current_user(cred, t) ==
    LET bearer == oauth2_bearer(cred) IN
    IF ~bearer.ok THEN bearer
    ELSE LET d == jwt_decode(bearer.token, secret_key, {ALGORITHM}, t) IN
         IF ~d.ok \/ ~({"sub", "id", "role"} \subseteq DOMAIN d.claims)
         THEN HTTPException(401, "Invalid Credentials")
         ELSE [ok |-> TRUE,
               user |-> [username |-> d.claims.sub, id |-> d.claims.id,
                         role |-> d.claims.role]]

-----------------------------------------------------------------------------
(* Store queries (SQLAlchemy) over the rows of a table.                    *)

\* Query.first(): the first row of a result, as a sequence of at most one row
First(rows) == IF rows = <<>> THEN <<>> ELSE <<rows[1]>>

\* a DELETE that lost its WHERE clause
db_delete_every_row(rows, record) == <<>>

\* db.delete(record); db.commit()
db_delete(rows, record) == SelectSeq(rows, LAMBDA r: r.id # record.id)

\* an UPDATE that lost its WHERE clause
db_update_every_row(rows, record) == [i \in 1..Len(rows) |-> record]

\* an UPDATE that is never committed
db_update_lost(rows, record) == rows

\* db.add(record); db.commit() for a row loaded from the table: UPDATE by key
db_update(rows, record) ==
    [i \in 1..Len(rows) |-> IF rows[i].id = record.id THEN record ELSE rows[i]]

\* db.query(User).filter(User.username == username).first()
query_user_by_username(rows, username) ==
    First(SelectSeq(rows, LAMBDA u: u.username = username))

\* db.query(User).filter(User.id == id).first()
query_user_by_id(rows, id) ==
    First(SelectSeq(rows, LAMBDA u: u.id = id))

\* the same query with the owner filter forgotten
query_todos_any_owner(rows, owner_id) == rows

\* the same query ended with first() instead of all()
query_first_todo_by_owner(rows, owner_id) ==
    First(SelectSeq(rows, LAMBDA t: t.owner_id = owner_id))

\* db.query(ToDo).filter(ToDo.owner_id == user.get("id")).all()
query_todos_by_owner(rows, owner_id) ==
    SelectSeq(rows, LAMBDA t: t.owner_id = owner_id)

\* the same query with the owner predicate forgotten
query_todo_ignoring_owner(rows, id, owner_id) ==
    First(SelectSeq(rows, LAMBDA t: t.id = id))

\* db.query(ToDo).filter((ToDo.id == id) & (ToDo.owner_id == user.get("id"))).first()
query_todo_by_id_and_owner(rows, id, owner_id) ==
    First(SelectSeq(rows, LAMBDA t: t.id = id /\ t.owner_id = owner_id))

\* the same query ended with first() instead of all()
query_first_todo(rows) == First(rows)

\* db.query(ToDo).all()
query_all_todos(rows) == rows

\* db.query(ToDo).filter(ToDo.id == id).first()
query_todo_by_id(rows, id) ==
    First(SelectSeq(rows, LAMBDA t: t.id = id))

-----------------------------------------------------------------------------
(* The session of one request (SessionLocal, autocommit=False,             *)
(* autoflush=False): the committed database, what the session's open       *)
(* transaction sees, and the new objects it has not sent yet.              *)

\* db = SessionLocal() on a database whose committed content is store
SessionLocal(store) == [committed |-> store, tx |-> store, new |-> <<>>]

\* db.add(address) for a new object: registered, not yet sent
db_add(session, address) == [session EXCEPT !.new = Append(@, address)]

\* a flush that also commits what it sends
db_flush_autocommit(session, seq) ==
    LET sent == [i \in 1..Len(session.new) |->
                    [session.new[i] EXCEPT !.id = seq + i]]
        tx == [session.tx EXCEPT !.addresses = @ \o sent]
    IN  [committed |-> tx, tx |-> tx, new |-> <<>>]

\* db.flush(): INSERT the new objects inside the transaction; each gets its
\* id from the sequence, whose last value was seq.  Nothing is committed.
db_flush(session, seq) ==
    LET sent == [i \in 1..Len(session.new) |->
                    [session.new[i] EXCEPT !.id = seq + i]]
    IN  [session EXCEPT !.tx.addresses = @ \o sent, !.new = <<>>]

\* db.add(user) for a row loaded in this session and changed: UPDATE in the
\* transaction
db_add_user(session, user) ==
    [session EXCEPT !.tx.users = db_update(@, user)]

\* db.commit(): what the transaction sees becomes the committed content
db_commit(session) == [session EXCEPT !.committed = session.tx]

\* db.close() in the finally of get_db: an open transaction is rolled back
db_close(session) == [session EXCEPT !.tx = session.committed, !.new = <<>>]

-----------------------------------------------------------------------------
(* Request validation (pydantic models and Path constraints).              *)

\* a request model without Field constraints
ToDoRequest_unconstrained(body) == TRUE

\* ToDoRequest: title 1..50, description 0..300, 0 < priority < 6
ToDoRequest(body) ==
    /\ StrLen(body.title) >= 1 /\ StrLen(body.title) <= 50
    /\ StrLen(body.description) >= 0 /\ StrLen(body.description) <= 300
    /\ body.priority > 0 /\ body.priority < 6

\* id: int = Path(gt=0)
PathId(id) == id > 0

\* AddressRequest: seven required strings
AddressFields ==
    {"address1", "address2", "city", "state", "country", "postal_code", "apt_num"}

AddressRequest(body) == AddressFields \subseteq DOMAIN body

\* UserVerification: password and new_password of at least one character
UserVerification(body) ==
    StrLen(body.password) >= 1 /\ StrLen(body.new_password) >= 1

-----------------------------------------------------------------------------
(* Responses.                                                              *)

Response(status, detail, body) == [status |-> status, detail |-> detail, body |-> body]

\* an HTTPException raised by a dependency or a handler
Raised(e) == Response(e.status, e.detail, <<>>)

\* RequestValidationError
Unprocessable == Response(422, "Unprocessable Entity", <<>>)

\* an exception no handler catches (IntegrityError from db.commit())
ServerError == Response(500, "Internal Server Error", <<>>)

-----------------------------------------------------------------------------
(* What clients send.                                                      *)

Pw1 == Rep("p", 8)
Pw2 == Rep("q", 8)
Pw3 == Rep("r", 8)
Passwords == {Pw1, Pw2, Pw3}

Usernames == {"alice", "bob"}
Roles == {"admin", "user"}

\* bodies of POST /auth/create_user
CreateUserRequests ==
    { [username |-> "alice", email |-> "a@x", password |-> Pw1, role |-> "admin"],
      [username |-> "bob", email |-> "b@x", password |-> Pw2, role |-> "user"] }

\* an account id no account has
NoSuchAccount == 7

Emails == {"a@x", "b@x"}

\* bodies of POST /auth/create_user as any client may send them: every
\* pairing of handle and email, two passwords, and for role (role: str) the
\* two roles the application knows and a string that is neither
RegistrationRequests ==
    [username : Usernames, email : Emails, password : {Pw1, Pw2},
     role : Roles \cup {"superuser"}]

\* bodies of POST /todo and PUT /todo/{id}: two valid ones and one for each
\* constraint a body can break.  The second valid body carries a field the
\* request model does not declare (pydantic ignores it).
ValidToDoRequests ==
    { [title |-> Rep("x", 1), description |-> EmptyStr, priority |-> 1, complete |-> FALSE],
      [title |-> Rep("y", 50), description |-> Rep("d", 300), priority |-> 5,
       complete |-> TRUE, owner_id |-> NoSuchAccount] }

InvalidToDoRequests ==
    { [title |-> EmptyStr, description |-> EmptyStr, priority |-> 1, complete |-> FALSE],
      [title |-> Rep("y", 51), description |-> EmptyStr, priority |-> 1, complete |-> FALSE],
      [title |-> Rep("x", 1), description |-> Rep("d", 301), priority |-> 1, complete |-> FALSE],
      [title |-> Rep("x", 1), description |-> EmptyStr, priority |-> 0, complete |-> FALSE],
      [title |-> Rep("x", 1), description |-> EmptyStr, priority |-> 6, complete |-> FALSE] }

ToDoRequests == ValidToDoRequests \cup InvalidToDoRequests

\* the valid bodies that name an owner
ForeignOwnerRequests == {r \in ValidToDoRequests : "owner_id" \in DOMAIN r}

\* path parameters: 0 breaks Path(gt=0)
PathIds == 0..MaxTodos

\* what PUT /todo/{id} is sent: a valid body with every id, and each invalid
\* body with the first id (a body is validated before the id is looked up)
UpdateRequests ==
    { [body |-> r, id |-> i] : r \in ValidToDoRequests, i \in PathIds }
        \cup { [body |-> r, id |-> 1] : r \in InvalidToDoRequests }

\* bodies of PUT /user/change_password
UserVerifications ==
    [password : Passwords \cup {EmptyStr}, new_password : Passwords \cup {EmptyStr}]

\* bodies of POST /address/: two complete ones and one without apt_num
AddressRequests ==
    { [address1 |-> "1 High St", address2 |-> "", city |-> "Leeds", state |-> "",
       country |-> "UK", postal_code |-> "LS1", apt_num |-> "1"],
      [address1 |-> "2 Low Rd", address2 |-> "", city |-> "York", state |-> "",
       country |-> "UK", postal_code |-> "YO1", apt_num |-> "2"],
      [address1 |-> "3 Mid Ln", address2 |-> "", city |-> "Hull", state |-> "",
       country |-> "UK", postal_code |-> "HU1"] }

\* the statement of POST /address/ at which the database fails (the
\* connection is lost, the server restarts), if any: the query that loads the
\* account to link, or the commit
Faults == {"none", "query", "commit"}

\* the bodies sent by holders of a token: a change to the one password no
\* account is registered with, from each password
SessionVerifications == {v \in UserVerifications : v.new_password = Pw3}

\* the bodies sent to workers that run beside each other: every valid one,
\* and the one with both fields empty
ConcurrentVerifications ==
    {v \in UserVerifications : UserVerification(v) \/ v.password = v.new_password}

\* a token that is not three base64url segments
Garbage ==
    [wellformed |-> FALSE, alg |-> "", claims |-> [exp |-> 0],
     sig |-> HS256("", [exp |-> 0], "")]

\* a request without an Authorization header, and one with a bearer token
Missing == [scheme |-> "none", token |-> Garbage]
Bearer(token) == [scheme |-> "bearer", token |-> token]

\* what a client without SECRET_KEY can make of a token it holds: another
\* handle, account id, role or expiry under the old signature, or a signature
\* made with a key of its own, over the old or over changed claims
Tampered(token) ==
    LET c == token.claims
        escalated == [c EXCEPT !.role = "admin"]
    IN  ({ [token EXCEPT !.claims.sub = u] : u \in Usernames }
         \cup { [token EXCEPT !.claims.id = i] : i \in 1..Len(users) }
         \cup { [token EXCEPT !.claims.role = r] : r \in Roles }
         \cup { [token EXCEPT !.claims.exp = c.exp + TOKEN_TTL] }
         \cup { [token EXCEPT !.sig = HS256(token.alg, c, "attacker-key")] }
         \cup { [token EXCEPT !.claims = escalated,
                              !.sig = HS256(token.alg, escalated, "attacker-key")] }
         \cup { [token EXCEPT !.alg = "none", !.sig = HS256("none", c, "")] })
        \ {token}

\* the credentials of a well-behaved client: none, or a token login gave it
Credentials == {Missing} \cup { Bearer(i.token) : i \in issued }

\* the credentials any client may send
AnyCredentials ==
    Credentials \cup {Bearer(Garbage)}
        \cup { Bearer(t) : t \in UNION { Tampered(i.token) : i \in issued } }

\* the values SECRET_KEY has over the deployments of the application
SecretKeys == {SECRET_KEY, "another-secret-key"}

\* the instants the clock visits: the start, a fraction of a second later,
\* and for a token issued at the start its expiry, the last tick of that
\* second and the first tick of the next
Instants ==
    LET expiry == TOKEN_TTL * TicksPerSec
    IN  {0, 1, expiry, expiry + TicksPerSec - 1, expiry + TicksPerSec}

-----------------------------------------------------------------------------
(* The application.                                                        *)

\* the worker processes (uvicorn workers, or instances behind a balancer):
\* each runs the application on its own and all share the database
Workers == 1..MaxWorkers

\* a worker that is handling no change_password request
Idle ==
    [pc |-> "idle", body |-> [password |-> EmptyStr, new_password |-> EmptyStr],
     user_result |-> <<>>, loaded_hash |-> <<>>, resp |-> Response(0, "", <<>>)]

\* the committed content of the database
Store == [users |-> users, todos |-> todos, addresses |-> addresses]

Init ==
    /\ users = <<>>
    /\ todos = <<>>
    /\ todo_seq = 0
    /\ addresses = <<>>
    /\ address_seq = 0
    /\ now = 0
    /\ secret_key = SECRET_KEY
    /\ issued = {}
    /\ inflight = [w \in Workers |-> Idle]
    /\ req = [op |-> "startup"]
    /\ resp = Response(0, "", <<>>)
    /\ before = [users |-> <<>>, todos |-> <<>>, addresses |-> <<>>]

\* time passes between requests
Tick ==
    /\ \E t \in Instants : t > now /\ now' = t
    /\ req' = [op |-> "tick"]
    /\ before' = Store
    /\ resp' = Response(0, "", <<>>)
    /\ UNCHANGED <<users, todos, todo_seq, issued, addresses, address_seq, secret_key, inflight>>

\* a column without a value: address_id is nullable and has no default
NULL == 0

\* a table whose only unique column is username
users_unique_username_only(rows, user) ==
    \A u \in {rows[i] : i \in 1..Len(rows)} : u.username # user.username

\* the process is stopped and started again with key as the value of
\* SECRET_KEY; the database and the tokens clients hold stay as they are
restart(key) ==
    /\ key # secret_key
    /\ secret_key' = key
    /\ req' = [op |-> "restart", key |-> key]
    /\ before' = Store
    /\ resp' = Response(0, "", <<>>)
    /\ UNCHANGED <<users, todos, todo_seq, addresses, address_seq, now, issued,
                   inflight>>

\* the unique constraints of table "users": username and email
users_unique(rows, user) ==
    \A u \in {rows[i] : i \in 1..Len(rows)} :
        u.username # user.username /\ u.email # user.email

\* POST /auth/create_user (first_name, last_name and phone_number are stored
\* and never read; they are left out)
create_user(create_user_request, salt) ==
    LET user == [id |-> Len(users) + 1,
                 username |-> create_user_request.username,
                 email |-> create_user_request.email,
                 hashed_password |-> bcrypt_hash(create_user_request.password, salt),
                 is_active |-> TRUE,
                 role |-> create_user_request.role,
                 address_id |-> NULL]
    IN  /\ req' = [op |-> "create_user", body |-> create_user_request]
        /\ before' = Store
        /\ IF users_unique(users, user)
           THEN /\ users' = Append(users, user)
                /\ resp' = Response(201, "", <<>>)
           ELSE /\ users' = users
                /\ resp' = ServerError
        /\ UNCHANGED <<todos, todo_seq, now, issued, addresses, address_seq, secret_key, inflight>>

\* an authentication that never looks at the password
authenticate_any_password(username, password, rows) ==
    query_user_by_username(rows, username)

\* authenticate_user: the row, or nothing
authenticate_user(username, password, rows) ==
    LET user == query_user_by_username(rows, username) IN
    IF user # <<>> /\ bcrypt_verify(password, user[1].hashed_password)
    THEN user ELSE <<>>

\* POST /auth/token
login_for_access_token(username, password) ==
    LET user == authenticate_user(username, password, users) IN
    /\ req' = [op |-> "login_for_access_token", username |-> username,
               password |-> password]
    /\ before' = Store
    /\ IF user # <<>>
       THEN LET token == create_access_token(user[1].id, user[1].username,
                                             user[1].role, TOKEN_TTL, now)
                grant == [token |-> token, at |-> now, key |-> secret_key,
                          identity |-> [username |-> user[1].username,
                                        id |-> user[1].id, role |-> user[1].role]]
            IN  /\ Cardinality(issued \cup {grant}) <= MaxTokens
                /\ issued' = issued \cup {grant}
                /\ resp' = Response(200, "",
                                    <<[access_token |-> token, token_type |-> "bearer"]>>)
       ELSE /\ issued' = issued
            /\ resp' = Raised(HTTPException(401, "Invalid Credentials"))
    /\ UNCHANGED <<users, todos, todo_seq, now, addresses, address_seq, secret_key, inflight>>

\* GET /
read_all(cred) ==
    LET auth == get_current_user(cred, now) IN
    /\ req' = [op |-> "read_all", cred |-> cred]
    /\ before' = Store
    /\ resp' = IF ~auth.ok THEN Raised(auth)
               ELSE Response(200, "", query_todos_by_owner(todos, auth.user.id))
    /\ UNCHANGED <<users, todos, todo_seq, now, issued, addresses, address_seq, secret_key, inflight>>

\* GET /todo/{id}
read_todo(cred, id) ==
    LET auth == get_current_user(cred, now) IN
    /\ req' = [op |-> "read_todo", cred |-> cred, id |-> id]
    /\ before' = Store
    /\ resp' = IF ~auth.ok THEN Raised(auth)
               ELSE IF ~PathId(id) THEN Unprocessable
               ELSE LET result == query_todo_by_id_and_owner(todos, id, auth.user.id)
                    IN  IF result # <<>> THEN Response(200, "", result)
                        ELSE Raised(HTTPException(404, "To Do Not Found"))
    /\ UNCHANGED <<users, todos, todo_seq, now, issued, addresses, address_seq, secret_key, inflight>>

\* a row whose owner is the one the body names, when it names one
ToDo_owner_from_body(todo_request, id, owner_id) ==
    [id |-> id,
     owner_id |-> IF "owner_id" \in DOMAIN todo_request
                  THEN todo_request.owner_id ELSE owner_id,
     title |-> todo_request.title,
     description |-> todo_request.description,
     priority |-> todo_request.priority,
     complete |-> todo_request.complete]

\* ToDo(**todo_request.dict(), owner_id=owner_id), with the id the sequence
\* gives it: dict() holds the four declared fields and nothing else
ToDo(todo_request, id, owner_id) ==
    [id |-> id,
     owner_id |-> owner_id,
     title |-> todo_request.title,
     description |-> todo_request.description,
     priority |-> todo_request.priority,
     complete |-> todo_request.complete]

\* POST /todo
create_todo(cred, todo_request) ==
    LET auth == get_current_user(cred, now) IN
    /\ req' = [op |-> "create_todo", cred |-> cred, body |-> todo_request]
    /\ before' = Store
    /\ IF ~auth.ok
       THEN resp' = Raised(auth) /\ UNCHANGED <<todos, todo_seq>>
       ELSE IF ~ToDoRequest(todo_request)
       THEN resp' = Unprocessable /\ UNCHANGED <<todos, todo_seq>>
       ELSE /\ todo_seq < MaxTodos
            /\ todo_seq' = todo_seq + 1
            /\ todos' = Append(todos, ToDo(todo_request, todo_seq + 1, auth.user.id))
            /\ resp' = Response(201, "", <<>>)
    /\ UNCHANGED <<users, now, issued, addresses, address_seq, secret_key, inflight>>

\* PUT /todo/{id}
update_todo(cred, todo_request, id) ==
    LET auth == get_current_user(cred, now) IN
    /\ req' = [op |-> "update_todo", cred |-> cred, id |-> id, body |-> todo_request]
    /\ before' = Store
    /\ IF ~auth.ok
       THEN resp' = Raised(auth) /\ todos' = todos
       ELSE IF ~ToDoRequest(todo_request) \/ ~PathId(id)
       THEN resp' = Unprocessable /\ todos' = todos
       ELSE LET todo == query_todo_by_id_and_owner(todos, id, auth.user.id) IN
            IF todo = <<>>
            THEN resp' = Raised(HTTPException(404, "To Do Not Found")) /\ todos' = todos
            ELSE /\ todos' = db_update(todos,
                                       [todo[1] EXCEPT
                                            !.title = todo_request.title,
                                            !.description = todo_request.description,
                                            !.priority = todo_request.priority,
                                            !.complete = todo_request.complete])
                 /\ resp' = Response(204, "", <<>>)
    /\ UNCHANGED <<users, todo_seq, now, issued, addresses, address_seq, secret_key, inflight>>

\* DELETE /todo/{id}
delete_todo(cred, id) ==
    LET auth == get_current_user(cred, now) IN
    /\ req' = [op |-> "delete_todo", cred |-> cred, id |-> id]
    /\ before' = Store
    /\ IF ~auth.ok
       THEN resp' = Raised(auth) /\ todos' = todos
       ELSE IF ~PathId(id)
       THEN resp' = Unprocessable /\ todos' = todos
       ELSE LET record == query_todo_by_id_and_owner(todos, id, auth.user.id) IN
            IF record = <<>>
            THEN resp' = Raised(HTTPException(404, "To Do Not Found")) /\ todos' = todos
            ELSE /\ todos' = db_delete(todos, record[1])
                 /\ resp' = Response(204, "", <<>>)
    /\ UNCHANGED <<users, todo_seq, now, issued, addresses, address_seq, secret_key, inflight>>

\* a guard that lets every identity through
is_anyone(user) == TRUE

\* the guard of both admin handlers: user.get("role") == "admin"
is_admin(user) == user.role = "admin"

\* GET /admin/todo
admin_read_all(cred) ==
    LET auth == get_current_user(cred, now) IN
    /\ req' = [op |-> "admin_read_all", cred |-> cred]
    /\ before' = Store
    /\ resp' = IF ~auth.ok THEN Raised(auth)
               ELSE IF ~is_admin(auth.user)
               THEN Raised(HTTPException(401, "Invalid Credentials"))
               ELSE Response(200, "", query_all_todos(todos))
    /\ UNCHANGED <<users, todos, todo_seq, now, issued, addresses, address_seq, secret_key, inflight>>

\* DELETE /admin/todo/{id}
admin_delete_todo(cred, id) ==
    LET auth == get_current_user(cred, now) IN
    /\ req' = [op |-> "admin_delete_todo", cred |-> cred, id |-> id]
    /\ before' = Store
    /\ IF ~auth.ok
       THEN resp' = Raised(auth) /\ todos' = todos
       ELSE IF ~PathId(id)
       THEN resp' = Unprocessable /\ todos' = todos
       ELSE IF ~is_admin(auth.user)
       THEN resp' = Raised(HTTPException(401, "Invalid Credentials")) /\ todos' = todos
       ELSE LET todo == query_todo_by_id(todos, id) IN
            IF todo = <<>>
            THEN resp' = Raised(HTTPException(404, "To Do Not Found")) /\ todos' = todos
            ELSE /\ todos' = db_delete(todos, todo[1])
                 /\ resp' = Response(204, "", <<>>)
    /\ UNCHANGED <<users, todo_seq, now, issued, addresses, address_seq, secret_key, inflight>>

\* GET /user/
get_user(cred) ==
    LET auth == get_current_user(cred, now) IN
    /\ req' = [op |-> "get_user", cred |-> cred]
    /\ before' = Store
    /\ resp' = IF ~auth.ok THEN Raised(auth)
               ELSE Response(200, "", query_user_by_id(users, auth.user.id))
    /\ UNCHANGED <<users, todos, todo_seq, now, issued, addresses, address_seq, secret_key, inflight>>

\* the check made on the wrong field of the body
new_password_matches(user_verification, user_result) ==
    bcrypt_verify(user_verification.new_password, user_result.hashed_password)

\* bcrypt_context.verify(user_verification.password, user_result.hashed_password)
password_matches(user_verification, user_result) ==
    bcrypt_verify(user_verification.password, user_result.hashed_password)

\* PUT /user/change_password
change_password(cred, user_verification, salt) ==
    LET auth == get_current_user(cred, now) IN
    /\ req' = [op |-> "change_password", cred |-> cred, body |-> user_verification]
    /\ before' = Store
    /\ IF ~auth.ok
       THEN resp' = Raised(auth) /\ users' = users
       ELSE IF ~UserVerification(user_verification)
       THEN resp' = Unprocessable /\ users' = users
       ELSE LET user_result == query_user_by_id(users, auth.user.id) IN
            IF user_result = <<>>
            THEN resp' = Raised(HTTPException(404, "User Not Found")) /\ users' = users
            ELSE IF ~password_matches(user_verification, user_result[1])
            THEN resp' = Raised(HTTPException(401, "Incorrect Password")) /\ users' = users
            ELSE /\ users' = db_update(users,
                                       [user_result[1] EXCEPT !.hashed_password =
                                            bcrypt_hash(user_verification.new_password,
                                                        salt)])
                 /\ resp' = Response(204, "", <<>>)
    /\ UNCHANGED <<todos, todo_seq, now, issued, addresses, address_seq, secret_key, inflight>>

\* PUT /user/change_password served by worker w, in the three steps other
\* workers can come between.  Inside one worker a handler runs from its
\* first statement to its last (async def without an await); workers that
\* share the database run beside each other.  The answer of the request is
\* kept with it.
\*
\* first step: the identity is resolved, the body validated and the row
\* loaded (users.py:30-34)
change_password_load(w, cred, user_verification) ==
    LET auth == get_current_user(cred, now)
        user_result == query_user_by_id(users, auth.user.id)
        done(r) == [Idle EXCEPT !.pc = "done", !.body = user_verification,
                                !.resp = r]
    IN  /\ inflight[w].pc = "idle"
        /\ inflight' = [inflight EXCEPT ![w] =
              IF ~auth.ok THEN done(Raised(auth))
              ELSE IF ~UserVerification(user_verification) THEN done(Unprocessable)
              ELSE IF user_result = <<>>
              THEN done(Raised(HTTPException(404, "User Not Found")))
              ELSE [Idle EXCEPT !.pc = "loaded", !.body = user_verification,
                                !.user_result = user_result,
                                !.loaded_hash = user_result[1].hashed_password]]
        /\ UNCHANGED <<users, todos, todo_seq, addresses, address_seq, now,
                       secret_key, issued, req, resp, before>>

\* second step: the old password is verified against the row as it was
\* loaded, and the new hash assigned to the loaded object (users.py:35-38)
change_password_verify(w, salt) ==
    LET r == inflight[w] IN
    /\ r.pc = "loaded"
    /\ inflight' = [inflight EXCEPT ![w] =
          IF ~password_matches(r.body, r.user_result[1])
          THEN [r EXCEPT !.pc = "done",
                         !.resp = Raised(HTTPException(401, "Incorrect Password"))]
          ELSE [r EXCEPT !.pc = "dirty",
                         !.user_result[1].hashed_password =
                              bcrypt_hash(r.body.new_password, salt)]]
    /\ UNCHANGED <<users, todos, todo_seq, addresses, address_seq, now,
                   secret_key, issued, req, resp, before>>

\* UPDATE users SET hashed_password = ... WHERE id = ...: the flush of an
\* object whose only changed attribute is hashed_password
db_update_hashed_password(rows, record) ==
    [i \in 1..Len(rows) |->
        IF rows[i].id = record.id
        THEN [rows[i] EXCEPT !.hashed_password = record.hashed_password]
        ELSE rows[i]]

\* third step: the UPDATE is sent and committed (users.py:42-43)
change_password_commit(w) ==
    LET r == inflight[w] IN
    /\ r.pc = "dirty"
    /\ users' = db_update_hashed_password(users, r.user_result[1])
    /\ inflight' = [inflight EXCEPT ![w] =
          [r EXCEPT !.pc = "done", !.resp = Response(204, "", <<>>)]]
    /\ UNCHANGED <<todos, todo_seq, addresses, address_seq, now, secret_key,
                   issued, req, resp, before>>

\* address = Address() with the seven fields of the body; no id before the flush
Address(address_request) ==
    [id |-> NULL,
     address1 |-> address_request.address1,
     address2 |-> address_request.address2,
     city |-> address_request.city,
     state |-> address_request.state,
     country |-> address_request.country,
     postal_code |-> address_request.postal_code,
     apt_num |-> address_request.apt_num]

\* POST /address/.  An exception leaves the handler at the failing statement
\* and get_db closes the session; the answer is then 500.
create_address(cred, address_request, fault) ==
    LET auth == get_current_user(cred, now) IN
    /\ req' = [op |-> "create_address", cred |-> cred, body |-> address_request,
               fault |-> fault]
    /\ before' = Store
    /\ IF ~auth.ok
       THEN resp' = Raised(auth) /\ UNCHANGED <<users, addresses, address_seq>>
       ELSE IF ~AddressRequest(address_request)
       THEN resp' = Unprocessable /\ UNCHANGED <<users, addresses, address_seq>>
       ELSE LET db == SessionLocal(Store)
                added == db_add(db, Address(address_request))
                flushed == db_flush(added, address_seq)
                address == flushed.tx.addresses[Len(flushed.tx.addresses)]
                user == query_user_by_id(flushed.tx.users, auth.user.id)
                linked == db_add_user(flushed,
                                      [user[1] EXCEPT !.address_id = address.id])
                committed == db_commit(linked)
                closed == IF fault = "query" \/ user = <<>>
                          THEN db_close(flushed)
                          ELSE IF fault = "commit" THEN db_close(linked)
                          ELSE db_close(committed)
            IN  /\ address_seq < MaxAddresses
                /\ address_seq' = address_seq + 1
                /\ users' = closed.committed.users
                /\ addresses' = closed.committed.addresses
                /\ resp' = IF fault # "none" \/ user = <<>> THEN ServerError
                           ELSE Response(201, "", <<address_request>>)
    /\ UNCHANGED <<todos, todo_seq, now, issued, secret_key, inflight>>

\* the routers main.py includes in the application
IncludedRouters == {"auth", "todos", "admin", "users"}

\* POST /address/ sent to the application main.py assembles: handled by
\* create_address when its router is included, and otherwise answered by the
\* framework, before any dependency runs, with 404 "Not Found"
post_address(cred, address_request, fault) ==
    IF "address" \in IncludedRouters
    THEN create_address(cred, address_request, fault)
    ELSE /\ req' = [op |-> "post_address", cred |-> cred, body |-> address_request,
                    fault |-> fault]
         /\ before' = Store
         /\ resp' = Response(404, "Not Found", <<>>)
         /\ UNCHANGED <<users, todos, todo_seq, addresses, address_seq, now,
                        secret_key, issued, inflight>>

-----------------------------------------------------------------------------
(* Specifications.  One request is one step.  Each specification lets the *)
(* clients use one group of entry points, so that its state space is the  *)
(* store that group reads and writes.                                     *)

\* the task and admin entry points (routers/todos.py, routers/admin.py)
NextTasks ==
    \/ \E r \in CreateUserRequests, salt \in OneSalt : create_user(r, salt)
    \/ \E u \in Usernames, p \in Passwords : login_for_access_token(u, p)
    \/ \E c \in Credentials : read_all(c)
    \/ \E c \in Credentials, id \in PathIds : read_todo(c, id)
    \/ \E c \in Credentials, r \in ToDoRequests : create_todo(c, r)
    \/ \E c \in Credentials, u \in UpdateRequests : update_todo(c, u.body, u.id)
    \/ \E c \in Credentials, id \in PathIds : delete_todo(c, id)
    \/ \E c \in Credentials : admin_read_all(c)
    \/ \E c \in Credentials, id \in PathIds : admin_delete_todo(c, id)

SpecTasks == Init /\ [][NextTasks]_vars

\* the account entry points (routers/users.py)
NextAccounts ==
    \/ \E r \in CreateUserRequests, salt \in Salts : create_user(r, salt)
    \/ \E u \in Usernames, p \in Passwords : login_for_access_token(u, p)
    \/ \E c \in Credentials : get_user(c)
    \/ \E c \in Credentials, v \in UserVerifications, salt \in Salts :
            change_password(c, v, salt)

SpecAccounts == Init /\ [][NextAccounts]_vars

\* the life of a token: time passes, and clients present any credential
NextTokens ==
    \/ \E r \in CreateUserRequests, salt \in OneSalt : create_user(r, salt)
    \/ \E u \in Usernames, p \in Passwords : login_for_access_token(u, p)
    \/ Tick
    \/ \E c \in AnyCredentials : get_user(c)

SpecTokens == Init /\ [][NextTokens]_vars

\* two workers, each serving one change of password
NextConcurrent ==
    \/ \E r \in CreateUserRequests, salt \in OneSalt : create_user(r, salt)
    \/ \E u \in Usernames, p \in Passwords : login_for_access_token(u, p)
    \/ \E w \in Workers, c \in Credentials, v \in ConcurrentVerifications :
            change_password_load(w, c, v)
    \/ \E w \in Workers, salt \in OneSalt : change_password_verify(w, salt)
    \/ \E w \in Workers : change_password_commit(w)

SpecConcurrent == Init /\ [][NextConcurrent]_vars

\* the assembled application asked for the address entry point
NextRouting ==
    \/ \E r \in CreateUserRequests, salt \in OneSalt : create_user(r, salt)
    \/ \E u \in Usernames, p \in Passwords : login_for_access_token(u, p)
    \/ \E c \in Credentials : get_user(c)
    \/ \E c \in Credentials, r \in AddressRequests, f \in Faults :
            post_address(c, r, f)

SpecRouting == Init /\ [][NextRouting]_vars

\* tokens held while time passes and passwords change
NextSessions ==
    \/ \E r \in CreateUserRequests, salt \in OneSalt : create_user(r, salt)
    \/ \E u \in Usernames, p \in Passwords : login_for_access_token(u, p)
    \/ Tick
    \/ \E c \in Credentials : get_user(c)
    \/ \E c \in Credentials, v \in SessionVerifications, salt \in OneSalt :
            change_password(c, v, salt)

SpecSessions == Init /\ [][NextSessions]_vars

\* the signing secret changes between two runs of the process
NextRotation ==
    \/ \E r \in CreateUserRequests, salt \in OneSalt : create_user(r, salt)
    \/ \E u \in Usernames, p \in Passwords : login_for_access_token(u, p)
    \/ \E k \in SecretKeys : restart(k)
    \/ \E c \in Credentials : get_user(c)

SpecRotation == Init /\ [][NextRotation]_vars

\* registration as any client may use it, and login
NextRegistration ==
    \/ \E r \in RegistrationRequests, salt \in OneSalt : create_user(r, salt)
    \/ \E u \in Usernames, p \in Passwords : login_for_access_token(u, p)

SpecRegistration == Init /\ [][NextRegistration]_vars

\* the address entry point (routers/address.py), which main.py does not
\* include: its router served next to registration, login and the creation
\* of tasks, the other entry point that stores a reference
NextAddresses ==
    \/ \E r \in CreateUserRequests, salt \in OneSalt : create_user(r, salt)
    \/ \E u \in Usernames, p \in Passwords : login_for_access_token(u, p)
    \/ \E c \in Credentials, r \in ForeignOwnerRequests : create_todo(c, r)
    \/ \E c \in Credentials, r \in AddressRequests, f \in Faults :
            create_address(c, r, f)

SpecAddresses == Init /\ [][NextAddresses]_vars

\* the application main.py assembles
Next ==
    \/ NextTasks \/ NextAccounts \/ NextTokens \/ NextRotation \/ NextRegistration
    \/ NextRouting \/ NextConcurrent \/ NextSessions

Spec == Init /\ [][Next]_vars

-----------------------------------------------------------------------------
(* Properties.                                                             *)

Rows(rows) == {rows[i] : i \in 1..Len(rows)}

\* the last request carried a credential that resolves to an identity
Authenticated == "cred" \in DOMAIN req /\ get_current_user(req.cred, now).ok

\* that identity
Caller == get_current_user(req.cred, now).user

NotFound == Response(404, "To Do Not Found", <<>>)

TaskOps == {"read_all", "read_todo", "create_todo", "update_todo", "delete_todo"}

\* C1: the list GET / returns to a non-admin identity A holds no task whose
\* owner is another account.
C1_ListHoldsOnlyOwnTasks ==
    (req.op = "read_all" /\ resp.status = 200 /\ Caller.role # "admin")
        => \A t \in Rows(resp.body) : t.owner_id = Caller.id

\* a non-admin got a non-empty list while the store held a task of another account
C1_Witness ==
    /\ req.op = "read_all" /\ resp.status = 200 /\ Caller.role # "admin"
    /\ resp.body # <<>>
    /\ \E t \in Rows(todos) : t.owner_id # Caller.id

\* C2: GET /todo/{id} by identity A for an id that is no task of A, whether
\* the id is a task of another account or no task at all, is answered 404
\* "To Do Not Found" with no record.
C2_ForeignTaskReadsAsNotFound ==
    (/\ req.op = "read_todo" /\ Authenticated /\ PathId(req.id)
     /\ ~\E t \in Rows(todos) : t.id = req.id /\ t.owner_id = Caller.id)
        => resp = NotFound

\* A asked for an existing task of B and got the 404
C2_Witness ==
    /\ req.op = "read_todo" /\ Authenticated
    /\ \E t \in Rows(todos) : t.id = req.id /\ t.owner_id # Caller.id
    /\ resp = NotFound

\* the store is as it was when the last request arrived
StoreUnchanged == Store = before

\* C3: PUT and DELETE /todo/{id} by identity A on an id that is no task of A
\* answer 404 and leave the store as it was; and no request to a task entry
\* point changes or removes a task of an account other than its caller.
C3_ForeignTaskIsNeverTouched ==
    req.op \in TaskOps =>
        /\ (/\ req.op \in {"update_todo", "delete_todo"}
            /\ Authenticated /\ PathId(req.id)
            /\ (req.op = "update_todo" => ToDoRequest(req.body))
            /\ ~\E t \in Rows(before.todos) :
                  t.id = req.id /\ t.owner_id = Caller.id)
              => (resp = NotFound /\ StoreUnchanged)
        /\ \A t \in Rows(before.todos) :
              (~Authenticated \/ t.owner_id # Caller.id) => t \in Rows(todos)

\* A asked to update or delete an existing task of B and got the 404
C3_Witness ==
    /\ req.op \in {"update_todo", "delete_todo"} /\ Authenticated
    /\ \E t \in Rows(before.todos) : t.id = req.id /\ t.owner_id # Caller.id
    /\ resp = NotFound

InvalidCredentials == Response(401, "Invalid Credentials", <<>>)

\* the instant a token issued at tick t0 expires: t0 + TOKEN_TTL
Expiry(t0) == t0 + TOKEN_TTL * TicksPerSec

\* C7: an admin entry point called with a valid identity whose role is not
\* "admin" answers 401 "Invalid Credentials" whatever the id, and the store
\* is as it was.
C7_NonAdminIsRejectedBeforeLookup ==
    (/\ req.op \in {"admin_read_all", "admin_delete_todo"}
     /\ Authenticated /\ Caller.role # "admin"
     /\ (req.op = "admin_delete_todo" => PathId(req.id)))
        => (resp = InvalidCredentials /\ StoreUnchanged)

\* a non-admin asked the admin entry point to delete an existing task
C7_Witness ==
    /\ req.op = "admin_delete_todo" /\ Authenticated /\ Caller.role # "admin"
    /\ \E t \in Rows(todos) : t.id = req.id
    /\ resp = InvalidCredentials

\* C8: DELETE /admin/todo/{id} by an admin removes the task with that id,
\* whoever owns it, and no other; when no task has the id it answers 404
\* "To Do Not Found" and the store is as it was.
C8_AdminDeletesExactlyThatTask ==
    (/\ req.op = "admin_delete_todo"
     /\ Authenticated /\ Caller.role = "admin" /\ PathId(req.id))
        => /\ users = before.users
           /\ IF \E t \in Rows(before.todos) : t.id = req.id
              THEN /\ resp = Response(204, "", <<>>)
                   /\ todos = SelectSeq(before.todos, LAMBDA t : t.id # req.id)
              ELSE /\ resp = NotFound
                   /\ todos = before.todos

\* an admin deleted a task of another account while another task stayed
C8_Witness ==
    /\ req.op = "admin_delete_todo" /\ Authenticated /\ Caller.role = "admin"
    /\ resp.status = 204
    /\ \E t \in Rows(before.todos) : t.id = req.id /\ t.owner_id # Caller.id
    /\ todos # <<>>

\* C9: GET /admin/todo by an admin returns every task in the store, of every
\* owner.
C9_AdminListIsWholeStore ==
    (req.op = "admin_read_all" /\ Authenticated /\ Caller.role = "admin")
        => resp = Response(200, "", todos)

\* an admin got a list holding tasks of two owners
C9_Witness ==
    /\ req.op = "admin_read_all" /\ Authenticated /\ Caller.role = "admin"
    /\ resp.status = 200
    /\ \E t1, t2 \in Rows(resp.body) : t1.owner_id # t2.owner_id

IncorrectPassword == Response(401, "Incorrect Password", <<>>)

\* C10: PUT /user/change_password with an old password that does not verify
\* against the stored hash answers 401 "Incorrect Password" and changes
\* nothing: the account's password still logs in, and the rejected new
\* password does not (unless it is the account's password already).
C10_WrongOldPasswordChangesNothing ==
    req.op = "change_password" =>
        LET row == query_user_by_id(before.users, Caller.id) IN
        (/\ Authenticated /\ UserVerification(req.body) /\ row # <<>>
         /\ ~bcrypt_verify(req.body.password, row[1].hashed_password))
          => /\ resp = IncorrectPassword
             /\ StoreUnchanged
             /\ \A p \in Passwords :
                  bcrypt_verify(p, row[1].hashed_password)
                      => authenticate_user(row[1].username, p, users) # <<>>
             /\ ~bcrypt_verify(req.body.new_password, row[1].hashed_password)
                  => authenticate_user(row[1].username, req.body.new_password,
                                       users) = <<>>

\* a change was refused whose new password is neither the supplied old one
\* nor the account's
C10_Witness ==
    /\ req.op = "change_password" /\ Authenticated
    /\ resp = IncorrectPassword
    /\ req.body.new_password # req.body.password
    /\ authenticate_user(Caller.username, req.body.new_password, users) = <<>>
    /\ \E p \in Passwords : authenticate_user(Caller.username, p, users) # <<>>

\* C11: after PUT /user/change_password by account A with the password that
\* verifies against A's stored hash and a new password different from it,
\* the answer is 204, login as A with the new password succeeds, login as A
\* with the old password is refused, and the row of every other account is
\* as it was.
C11_ChangedPasswordReplacesOld ==
    req.op = "change_password" =>
        LET row == query_user_by_id(before.users, Caller.id) IN
        (/\ Authenticated /\ UserVerification(req.body) /\ row # <<>>
         /\ bcrypt_verify(req.body.password, row[1].hashed_password)
         /\ req.body.new_password # req.body.password)
          => /\ resp = Response(204, "", <<>>)
             /\ authenticate_user(row[1].username, req.body.new_password,
                                  users) # <<>>
             /\ authenticate_user(row[1].username, req.body.password,
                                  users) = <<>>
             /\ Len(users) = Len(before.users)
             /\ \A i \in 1..Len(before.users) :
                   before.users[i].id # row[1].id => users[i] = before.users[i]
             /\ todos = before.todos

\* an account changed its password while another account was registered
C11_Witness ==
    /\ req.op = "change_password" /\ Authenticated
    /\ resp.status = 204
    /\ req.body.new_password # req.body.password
    /\ \E u \in Rows(users) : u.id # Caller.id
    /\ users # before.users

\* C12: POST /auth/token answers with a token exactly when the handle names
\* an account and the password verifies against that account's stored hash;
\* the token's claims are then that account's handle, id and role, and it
\* resolves to them.  A wrong password and an unknown handle both get the
\* same 401 "Invalid Credentials" and no token.
C12_LoginIffHandleAndPasswordMatch ==
    req.op = "login_for_access_token" =>
        LET row == query_user_by_username(before.users, req.username)
        IN  IF row # <<>> /\ bcrypt_verify(req.password, row[1].hashed_password)
            THEN /\ resp.status = 200
                 /\ Len(resp.body) = 1
                 /\ LET token == resp.body[1].access_token
                    IN  /\ token.claims.sub = row[1].username
                        /\ token.claims.id = row[1].id
                        /\ token.claims.role = row[1].role
                        /\ get_current_user(Bearer(token), now)
                              = [ok |-> TRUE,
                                 user |-> [username |-> row[1].username,
                                           id |-> row[1].id,
                                           role |-> row[1].role]]
                        /\ \E i \in issued : i.token = token
                 /\ StoreUnchanged
            ELSE /\ resp = InvalidCredentials
                 /\ StoreUnchanged

\* a login with the handle of an account and a password that is another
\* account's was refused
C12_Witness ==
    /\ req.op = "login_for_access_token"
    /\ resp = InvalidCredentials
    /\ query_user_by_username(users, req.username) # <<>>
    /\ \E u \in Rows(users) :
          u.username # req.username /\ bcrypt_verify(req.password, u.hashed_password)

\* C13: POST /todo with a valid identity and a valid body answers 201 and
\* appends exactly one task, whose owner is the caller's account id whatever
\* the body says and whose fields are the body's; the tasks that were there
\* and the accounts are as they were.
C13_CreatedTaskBelongsToCaller ==
    (req.op = "create_todo" /\ Authenticated /\ ToDoRequest(req.body))
        => /\ resp = Response(201, "", <<>>)
           /\ Len(todos) = Len(before.todos) + 1
           /\ SubSeq(todos, 1, Len(before.todos)) = before.todos
           /\ LET new == todos[Len(todos)]
              IN  /\ new.owner_id = Caller.id
                  /\ new.title = req.body.title
                  /\ new.description = req.body.description
                  /\ new.priority = req.body.priority
                  /\ new.complete = req.body.complete
                  /\ \A t \in Rows(before.todos) : t.id # new.id
           /\ users = before.users

\* a task was created from a body naming another owner, next to an older task
C13_Witness ==
    /\ req.op = "create_todo" /\ resp.status = 201
    /\ "owner_id" \in DOMAIN req.body /\ req.body.owner_id # Caller.id
    /\ before.todos # <<>>
    /\ todos[Len(todos)].owner_id = Caller.id

\* C14: GET / by identity A returns every task A owns: the answer is 200
\* with exactly the tasks of the store whose owner is A; a task A creates is
\* in the store with owner A; and no request other than a delete removes a
\* task from the store or changes its owner.  So every task A created and
\* nobody deleted since is in A's list.
C14_ListHoldsEveryOwnTask ==
    /\ (req.op = "read_all" /\ Authenticated)
          => /\ resp = Response(200, "",
                               SelectSeq(todos, LAMBDA t : t.owner_id = Caller.id))
             /\ StoreUnchanged
    /\ (req.op = "create_todo" /\ resp.status = 201)
          => \E t \in Rows(todos) :
                /\ t.owner_id = Caller.id
                /\ t \notin Rows(before.todos)
    /\ req.op \notin {"delete_todo", "admin_delete_todo"}
          => \A t \in Rows(before.todos) :
                \E s \in Rows(todos) : s.id = t.id /\ s.owner_id = t.owner_id

\* an account that created two tasks, while another account is registered,
\* got a list of both
C14_Witness ==
    /\ req.op = "read_all" /\ resp.status = 200
    /\ Len(resp.body) = 2
    /\ \A t \in Rows(resp.body) : t.owner_id = Caller.id
    /\ \E u \in Rows(users) : u.id # Caller.id

\* C15: POST /address/ is atomic.  Whatever statement fails, the committed
\* store afterwards either holds the new address and the caller's
\* address_id pointing to it, or is the store as it was; 201 is answered
\* only in the first case and a failure always leaves the second.
C15_AddressAndLinkCommitTogether ==
    req.op = "create_address" =>
        LET linked ==
                /\ Len(addresses) = Len(before.addresses) + 1
                /\ SubSeq(addresses, 1, Len(before.addresses)) = before.addresses
                /\ LET address == addresses[Len(addresses)]
                   IN  /\ \A f \in AddressFields : address[f] = req.body[f]
                       /\ \A a \in Rows(before.addresses) : a.id # address.id
                       /\ Len(users) = Len(before.users)
                       /\ \A i \in 1..Len(users) :
                             users[i] =
                                IF before.users[i].id = Caller.id
                                THEN [before.users[i] EXCEPT !.address_id = address.id]
                                ELSE before.users[i]
                       /\ \E u \in Rows(users) : u.id = Caller.id
                /\ todos = before.todos
        IN  /\ linked \/ StoreUnchanged
            /\ resp.status = 201 => linked
            /\ (req.fault # "none" \/ resp.status # 201) => StoreUnchanged
            /\ (Authenticated /\ AddressRequest(req.body) /\ req.fault = "none")
                  => resp = Response(201, "", <<req.body>>)

\* the statement that links the address to the account failed after the
\* address had been flushed, and the store is as it was
C15_Witness ==
    /\ req.op = "create_address" /\ Authenticated /\ AddressRequest(req.body)
    /\ req.fault = "query"
    /\ resp = ServerError
    /\ StoreUnchanged
    /\ address_seq > Len(addresses)

\* C16: in every state of the store the owner_id of each task is the id of
\* an account, and the address_id of each account, when it has one, is the
\* id of an address.
C16_ReferencesResolve ==
    /\ \A t \in Rows(todos) : \E u \in Rows(users) : u.id = t.owner_id
    /\ \A u \in Rows(users) :
          u.address_id # NULL => \E a \in Rows(addresses) : a.id = u.address_id

\* an account that owns a task has an address, and another account has none
C16_Witness ==
    /\ \E u \in Rows(users) :
          /\ u.address_id # NULL
          /\ \E t \in Rows(todos) : t.owner_id = u.id
    /\ \E u \in Rows(users) : u.address_id = NULL
    /\ Len(addresses) = MaxAddresses

\* C17: in every state of the store no two accounts have the same handle and
\* no two the same email; a registration whose handle or email an account
\* already has creates no account and leaves the store, the stored hash of
\* that account included, as it was.
C17_HandleAndEmailAreUnique ==
    /\ \A i, j \in 1..Len(users) :
          i # j => /\ users[i].username # users[j].username
                   /\ users[i].email # users[j].email
    /\ (/\ req.op = "create_user"
        /\ \E u \in Rows(before.users) :
              u.username = req.body.username \/ u.email = req.body.email)
          => (resp.status # 201 /\ StoreUnchanged)

\* a registration with a new handle, the email of an account and another
\* password was refused
C17_Witness ==
    /\ req.op = "create_user" /\ resp.status # 201
    /\ \E u \in Rows(users) :
          /\ u.email = req.body.email
          /\ u.username # req.body.username
          /\ ~bcrypt_verify(req.body.password, u.hashed_password)
    /\ \A u \in Rows(users) : u.username # req.body.username

\* C19: in every state of the store the role of every account is "user" or
\* "admin".
C19_EveryRoleIsEnumerated ==
    \A u \in Rows(users) : u.role \in {"user", "admin"}

\* what the code does instead: the role of an account is the string its
\* registration sent
RoleIsWhatRegistrationSent ==
    (req.op = "create_user" /\ resp.status = 201)
        => users[Len(users)].role = req.body.role

\* the three field constraints of a task
FieldConstraints(t) ==
    /\ t.title.len \in 1..50
    /\ t.description.len \in 0..300
    /\ t.priority \in 1..5

\* C18: POST /todo and PUT /todo/{id} with a body that breaks a field
\* constraint are refused (422 for a resolved identity) and leave the store
\* as it was, so every task of every store state has a title of 1 to 50
\* characters, a description of at most 300 and a priority from 1 to 5.
C18_InvalidFieldsNeverReachTheStore ==
    /\ (req.op \in {"create_todo", "update_todo"} /\ ~FieldConstraints(req.body))
          => /\ StoreUnchanged
             /\ resp.status \notin {201, 204}
             /\ Authenticated => resp = Unprocessable
    /\ \A t \in Rows(todos) : FieldConstraints(t)

\* an update with a priority of 6 for an existing task of the caller was
\* refused
C18_Witness ==
    /\ req.op = "update_todo" /\ Authenticated
    /\ req.body.priority = 6
    /\ \E t \in Rows(todos) : t.id = req.id /\ t.owner_id = Caller.id
    /\ resp = Unprocessable
    /\ StoreUnchanged

\* C20: a token issued while SECRET_KEY had one value is refused whenever
\* SECRET_KEY has another: after the key changes, every token issued before
\* resolves to 401 "Invalid Credentials" at once, and a request carrying it
\* is answered so.
C20_RotationInvalidatesTokens ==
    \A i \in issued :
        i.key # secret_key
            => /\ get_current_user(Bearer(i.token), now)
                     = HTTPException(401, "Invalid Credentials")
               /\ (req.op = "get_user" /\ req.cred = Bearer(i.token))
                     => resp = InvalidCredentials

\* what holds under the key a token was issued with: it resolves
TokenOfCurrentKeyResolves ==
    \A i \in issued :
        (i.key = secret_key /\ Seconds(now) <= Seconds(Expiry(i.at)))
            => get_current_user(Bearer(i.token), now).ok

\* the profile was asked for with a token issued under the earlier key, which
\* resolved until the restart
C20_Witness ==
    /\ req.op = "get_user" /\ resp = InvalidCredentials
    /\ \E i \in issued :
          /\ req.cred = Bearer(i.token)
          /\ i.key # secret_key
          /\ jwt_decode(i.token, i.key, {ALGORITHM}, now).ok

\* C21: an identity whose role is "admin" gets no more from the ordinary
\* task entry points than any other: GET / lists exactly the tasks it owns,
\* GET, PUT and DELETE /todo/{id} on a task of another account answer 404
\* "To Do Not Found", and none of the four changes or removes a task of
\* another account.
C21_AdminIsOrdinaryOnTaskEndpoints ==
    (/\ req.op \in {"read_all", "read_todo", "update_todo", "delete_todo"}
     /\ Authenticated /\ Caller.role = "admin")
        => /\ req.op = "read_all"
                => resp = Response(200, "",
                                   SelectSeq(before.todos,
                                             LAMBDA t : t.owner_id = Caller.id))
           /\ (/\ req.op # "read_all"
               /\ \E t \in Rows(before.todos) :
                     t.id = req.id /\ t.owner_id # Caller.id
               /\ (req.op = "update_todo" => FieldConstraints(req.body)))
                => (resp = NotFound /\ StoreUnchanged)
           /\ (req.op = "read_todo" /\ resp.status = 200)
                => \A t \in Rows(resp.body) : t.owner_id = Caller.id
           /\ SelectSeq(todos, LAMBDA t : t.owner_id # Caller.id)
                 = SelectSeq(before.todos, LAMBDA t : t.owner_id # Caller.id)

\* an admin asked the ordinary entry point to delete a task of another
\* account, next to a task of its own, and got the 404
C21_Witness ==
    /\ req.op = "delete_todo" /\ Authenticated /\ Caller.role = "admin"
    /\ \E t \in Rows(before.todos) : t.id = req.id /\ t.owner_id # Caller.id
    /\ \E t \in Rows(before.todos) : t.owner_id = Caller.id
    /\ resp = NotFound
    /\ StoreUnchanged

\* change_password run alone on an account whose stored hash is hash: the
\* status it answers and the hash it leaves
Alone(hash, body) ==
    IF bcrypt_verify(body.password, hash)
    THEN [status |-> 204, hash |-> bcrypt_hash(body.new_password, "s1")]
    ELSE [status |-> 401, hash |-> hash]

\* the requests of workers a and b run one after the other, a first, on an
\* account whose stored hash is the one a loaded
Serial(a, b) ==
    LET first == Alone(inflight[a].loaded_hash, inflight[a].body)
        second == Alone(first.hash, inflight[b].body)
    IN  [a |-> first.status, b |-> second.status, hash |-> second.hash]

\* C22: two change_password requests on one account that both supply the
\* same old password and new passwords different from it and from each
\* other end, however their steps interleave, as one of the two serial
\* orders ends: the same two answers and the same stored hash, so at most
\* one of them is answered 204.
C22_ConcurrentChangesSerialize ==
    \A a, b \in Workers :
        (/\ a # b
         /\ inflight[a].pc = "done" /\ inflight[b].pc = "done"
         /\ inflight[a].user_result # <<>> /\ inflight[b].user_result # <<>>
         /\ inflight[a].user_result[1].id = inflight[b].user_result[1].id
         /\ inflight[a].body.password = inflight[b].body.password
         /\ inflight[a].body.new_password # inflight[b].body.new_password
         /\ inflight[a].body.new_password # inflight[a].body.password
         /\ inflight[b].body.new_password # inflight[b].body.password)
          => /\ ~(inflight[a].resp.status = 204 /\ inflight[b].resp.status = 204)
             /\ LET row == query_user_by_id(users, inflight[a].user_result[1].id)[1]
                    seen == [a |-> inflight[a].resp.status,
                             b |-> inflight[b].resp.status,
                             hash |-> row.hashed_password]
                IN  \/ seen = Serial(a, b)
                    \/ seen = [a |-> Serial(b, a).b, b |-> Serial(b, a).a,
                               hash |-> Serial(b, a).hash]

\* what the code does instead: each request is judged against the hash it
\* loaded, and the stored hash is the one written by the last commit
JudgedAgainstLoadedHash ==
    \A w \in Workers :
        (inflight[w].pc = "done" /\ inflight[w].user_result # <<>>)
            => inflight[w].resp.status
                   = Alone(inflight[w].loaded_hash, inflight[w].body).status

\* C23: POST /address/ is an operation of the assembled application: sent
\* with a valid token and a complete body, with the database up, it is
\* served by create_address and answered 201.
C23_AddressIsServed ==
    (/\ req.op \in {"post_address", "create_address"}
     /\ Authenticated /\ AddressRequest(req.body) /\ req.fault = "none")
        => resp = Response(201, "", <<req.body>>)

\* what the code does instead: the path is not routed, whoever asks
PostAddressIsNotFound ==
    req.op \in {"post_address", "create_address"}
        => (resp = Response(404, "Not Found", <<>>) /\ StoreUnchanged)

\* C24: whatever has happened to the store since, passwords changed
\* included, a token resolves at every time before its expiry to the handle,
\* account id and role it was issued for, and a request carrying it is served
\* as that identity: GET /user/ answers 200 with the account's row, and
\* PUT /user/change_password is not refused for its credential.
C24_TokenOutlivesPasswordChange ==
    \A i \in issued :
        now < Expiry(i.at)
            => /\ get_current_user(Bearer(i.token), now)
                     = [ok |-> TRUE, user |-> i.identity]
               /\ (req.op = "get_user" /\ req.cred = Bearer(i.token))
                     => resp = Response(200, "",
                                        query_user_by_id(users, i.identity.id))
               /\ (req.op = "change_password" /\ req.cred = Bearer(i.token))
                     => resp \in {Response(204, "", <<>>), IncorrectPassword,
                                  Unprocessable}

\* a password was just changed with a token issued some time before; the
\* old password no longer logs in and the token still resolves
C24_Witness ==
    /\ req.op = "change_password" /\ resp.status = 204
    /\ users # before.users
    /\ \E i \in issued :
          /\ req.cred = Bearer(i.token)
          /\ i.at < now /\ now < Expiry(i.at)
          /\ authenticate_user(i.identity.username, req.body.password, users) = <<>>
          /\ get_current_user(Bearer(i.token), now).user = i.identity

\* C25: a PUT /todo/{id} answered 204 replaces the title, description,
\* priority and completion flag of the caller's task with that id by the
\* body's values and nothing else: the task keeps its id, its owner and its
\* place, every other task, every account and every address is as it was,
\* and there are as many tasks as before.
C25_UpdateChangesOnlyFourFields ==
    (req.op = "update_todo" /\ resp.status = 204)
        => /\ Len(todos) = Len(before.todos)
           /\ \E i \in 1..Len(todos) :
                 /\ before.todos[i].id = req.id
                 /\ before.todos[i].owner_id = Caller.id
                 /\ todos[i] = [id |-> before.todos[i].id,
                                owner_id |-> before.todos[i].owner_id,
                                title |-> req.body.title,
                                description |-> req.body.description,
                                priority |-> req.body.priority,
                                complete |-> req.body.complete]
                 /\ \A j \in 1..Len(todos) : j # i => todos[j] = before.todos[j]
           /\ users = before.users
           /\ addresses = before.addresses

\* a task was given another title, description, priority and flag while a
\* second task stayed as it was
C25_Witness ==
    /\ req.op = "update_todo" /\ resp.status = 204
    /\ Len(todos) = 2
    /\ \E i \in 1..Len(todos) :
          /\ todos[i].id = req.id
          /\ todos[i].title # before.todos[i].title
          /\ todos[i].description # before.todos[i].description
          /\ todos[i].priority # before.todos[i].priority
          /\ todos[i].complete # before.todos[i].complete
          /\ \E j \in 1..Len(todos) : j # i /\ todos[j] # todos[i]

\* C4: a token issued at t0 resolves at every time strictly before
\* t0 + TOKEN_TTL and is refused at every time at or after it, the expiry
\* instant included.
C4_TokenFailsFromExpiryInstant ==
    \A i \in issued :
        (req.op = "get_user" /\ req.cred = Bearer(i.token))
            => ((resp.status = 200) <=> (now < Expiry(i.at)))

\* what the code does instead: a token is accepted through the whole second
\* its expiry falls in, and refused from the next second on
TokenAcceptedThroughExpirySecond ==
    \A i \in issued :
        (req.op = "get_user" /\ req.cred = Bearer(i.token))
            => ((resp.status = 200) <=> (Seconds(now) <= Seconds(Expiry(i.at))))

\* C5: a token made from an issued one by changing its handle, account id,
\* role, expiry or signature without SECRET_KEY is refused, and every
\* identity a credential resolves to is the one an earlier login issued a
\* token for.
C5_TamperedTokenIsRejected ==
    /\ (/\ req.op = "get_user" /\ req.cred.scheme = "bearer"
        /\ \E i \in issued : req.cred.token \in Tampered(i.token))
          => resp = InvalidCredentials
    /\ \A c \in AnyCredentials :
          get_current_user(c, now).ok
              => \E i \in issued : get_current_user(c, now).user = i.identity
    /\ (req.op = "get_user" /\ resp.status = 200)
          => \E i \in issued :
                /\ Caller = i.identity
                /\ resp.body = query_user_by_id(users, i.identity.id)

\* a still valid token of a plain user, changed to carry the admin role, was
\* refused
C5_Witness ==
    /\ req.op = "get_user" /\ req.cred.scheme = "bearer"
    /\ resp = InvalidCredentials
    /\ \E i \in issued :
          /\ req.cred.token \in Tampered(i.token)
          /\ get_current_user(Bearer(i.token), now).ok
          /\ i.identity.role = "user"
          /\ req.cred.token.claims.role = "admin"

\* C6: whatever makes identity resolution fail, the answer is the one 401
\* "Invalid Credentials".
C6_EveryFailureIsInvalidCredentials ==
    (req.op = "get_user" /\ resp.status # 200) => resp = InvalidCredentials

\* what the code does for the failures of the token itself
FailedTokenIsInvalidCredentials ==
    (req.op = "get_user" /\ req.cred.scheme = "bearer" /\ resp.status # 200)
        => resp = InvalidCredentials

====
